---- MODULE Spec2Model ----
(****************************************************************************)
(* The CloudFormation template compiler of amplify-backend-gen:             *)
(* buildCloudFormationTemplate and its capability providers, and the part   *)
(* of buildFunction that compiles one function definition, writes the       *)
(* template file and registers the function in backend-config.json.         *)
(*                                                                          *)
(* Strings are sequences of symbols, and template-literal concatenation is  *)
(* \o.  The names an input chooses are written letter by letter, so that    *)
(* two different splits of one text are the same string; a fixed word of    *)
(* the source (for instance "AWS::Lambda::Function" or                      *)
(* "GraphQLAPIIdOutput") is one long symbol and is only ever used whole.    *)
(* The names of the inputs are alphanumeric.                                *)
(*                                                                          *)
(* JavaScript values are tagged records [t, v]: "str" (v a string),         *)
(* "num", "bool", "undef", "arr" (v a sequence of values) and "obj" (v the  *)
(* sequence of <<key, value>> properties in enumeration order).             *)
(****************************************************************************)
EXTENDS Integers, Sequences, FiniteSets, TLC

VARIABLES handlerDir, metadata, cfTemplate, templateFile, backendConfigFile, pc

vars == <<handlerDir, metadata, cfTemplate, templateFile, backendConfigFile, pc>>

----------------------------------------------------------------------------
(* JavaScript values *)

JStr(s) == [t |-> "str", v |-> s]
JNum(n) == [t |-> "num", v |-> n]
JBool(b) == [t |-> "bool", v |-> b]
JUndef == [t |-> "undef", v |-> <<>>]
JArr(items) == [t |-> "arr", v |-> items]
JObj(props) == [t |-> "obj", v |-> props]

\* a literal of the source written as one symbol
L(tok) == JStr(<<tok>>)
\* a property key that is a literal of the source
K(tok) == <<tok>>

\* lodash isObject: arrays and objects
isObject(x) == x.t \in {"obj", "arr"}

\* key in container (property name of an object, index of an array)
HasKey(c, k) ==
    IF c.t = "obj" THEN \E i \in 1..Len(c.v) : c.v[i][1] = k
    ELSE IF c.t = "arr" THEN k \in 1..Len(c.v)
    ELSE FALSE

\* container[key]; undefined when the key is absent
Get(c, k) ==
    IF ~HasKey(c, k) THEN JUndef
    ELSE IF c.t = "obj" THEN c.v[CHOOSE i \in 1..Len(c.v) : c.v[i][1] = k][2]
    ELSE c.v[k]

Digits == {"0", "1", "2", "3", "4", "5", "6", "7", "8", "9"}

DigitValue(c) ==
    CASE c = "0" -> 0 [] c = "1" -> 1 [] c = "2" -> 2 [] c = "3" -> 3
      [] c = "4" -> 4 [] c = "5" -> 5 [] c = "6" -> 6 [] c = "7" -> 7
      [] c = "8" -> 8 [] c = "9" -> 9

\* a < b for two canonical numerals
IndexLess(a, b) ==
    \/ Len(a) < Len(b)
    \/ /\ Len(a) = Len(b)
       /\ \E i \in 1..Len(a) :
            /\ DigitValue(a[i]) < DigitValue(b[i])
            /\ \A j \in 1..(i - 1) : a[j] = b[j]

\* 2^32 - 2, the largest array index
MaxArrayIndex == <<"4", "2", "9", "4", "9", "6", "7", "2", "9", "4">>

\* a property key that is an array index: the canonical numeral of an integer
\* from 0 to 2^32 - 2
isArrayIndex(k) ==
    /\ Len(k) > 0
    /\ \A i \in 1..Len(k) : k[i] \in Digits
    /\ Len(k) = 1 \/ k[1] # "0"
    /\ ~IndexLess(MaxArrayIndex, k)

\* A faulty variant of Put: a new property is added last whatever its key.
Put_InsertionOrder(c, k, val) ==
    IF c.t = "obj"
    THEN IF \E i \in 1..Len(c.v) : c.v[i][1] = k
         THEN JObj([i \in 1..Len(c.v) |->
                      IF c.v[i][1] = k THEN <<k, val>> ELSE c.v[i]])
         ELSE JObj(Append(c.v, <<k, val>>))
    ELSE IF k \in 1..Len(c.v)
         THEN JArr([i \in 1..Len(c.v) |-> IF i = k THEN val ELSE c.v[i]])
         ELSE JArr(Append(c.v, val))

\* container[key] = value: an existing property keeps its position.  The
\* properties of an object are kept in the order its keys are enumerated in:
\* the array-index keys in ascending order, then the others in the order they
\* were added, so a new array-index key goes after the smaller ones and a new
\* key of any other kind goes last.
Put(c, k, val) ==
    IF c.t = "obj"
    THEN IF HasKey(c, k)
         THEN JObj([i \in 1..Len(c.v) |->
                      IF c.v[i][1] = k THEN <<k, val>> ELSE c.v[i]])
         ELSE IF isArrayIndex(k)
         THEN LET n == Cardinality({i \in 1..Len(c.v) :
                                      /\ isArrayIndex(c.v[i][1])
                                      /\ IndexLess(c.v[i][1], k)})
              IN  JObj(SubSeq(c.v, 1, n) \o << <<k, val>> >>
                       \o SubSeq(c.v, n + 1, Len(c.v)))
         ELSE JObj(Append(c.v, <<k, val>>))
    ELSE IF k \in 1..Len(c.v)
         THEN JArr([i \in 1..Len(c.v) |-> IF i = k THEN val ELSE c.v[i]])
         ELSE JArr(Append(c.v, val))

\* the own enumerable properties of a container, in iteration order
Entries(c) ==
    IF c.t = "obj" THEN c.v
    ELSE [i \in 1..Len(c.v) |-> <<i, c.v[i]>>]

\* the property names of an object, in enumeration order
ObjectKeys(o) == [i \in 1..Len(o.v) |-> o.v[i][1]]

\* an object literal { k1: v1, ... }: a repeated key is assigned again
\* (o is always an object; the test makes o's value be computed first)
RECURSIVE PutAll(_, _)
PutAll(o, props) ==
    IF props = <<>> \/ ~isObject(o) THEN o
    ELSE PutAll(Put(o, props[1][1], props[1][2]), Tail(props))

\* { ...a, ...b } continued: the properties of b assigned onto a
ObjectSpread(a, b) == PutAll(a, b.v)

\* A faulty variant of fromPairs: the first pair of a key is the one kept.
RECURSIVE fromPairs_FirstWins(_)
fromPairs_FirstWins(pairs) ==
    IF pairs = <<>> THEN JObj(<<>>)
    ELSE LET rest == fromPairs_FirstWins(SubSeq(pairs, 1, Len(pairs) - 1))
             last == pairs[Len(pairs)]
         IN  IF HasKey(rest, last[1]) THEN rest ELSE Put(rest, last[1], last[2])

\* lodash fromPairs
fromPairs(pairs) == PutAll(JObj(<<>>), pairs)

\* lodash flatten, one level
RECURSIVE flatten(_)
flatten(lists) ==
    IF lists = <<>> THEN <<>> ELSE lists[1] \o flatten(Tail(lists))

----------------------------------------------------------------------------
(* lodash merge, uniq; JSON.stringify *)

\* assignMergeValue: an undefined source value is assigned only to a key the
\* destination lacks (a defined value equal to the destination's is skipped
\* by lodash, which leaves the same object)
assignMergeValue(object, key, value) ==
    IF value.t = "undef"
    THEN IF HasKey(object, key) THEN object ELSE Put(object, key, value)
    ELSE Put(object, key, value)

RECURSIVE baseMerge(_, _)
RECURSIVE baseMergeDeep(_, _, _)
RECURSIVE baseMergeEntries(_, _)

\* baseMergeDeep: an array or plain-object source value is merged into the
\* destination's value when that is an array (for an array) or an object
\* (for a plain object), otherwise into a fresh empty one
baseMergeDeep(object, key, srcValue) ==
    LET objValue == Get(object, key)
        newValue == IF srcValue.t = "arr"
                    THEN IF objValue.t = "arr" THEN objValue ELSE JArr(<<>>)
                    ELSE IF isObject(objValue) THEN objValue ELSE JObj(<<>>)
    IN  assignMergeValue(object, key, baseMerge(newValue, srcValue))

baseMergeEntries(object, entries) ==
    IF entries = <<>> \/ ~isObject(object) THEN object
    ELSE LET key == entries[1][1]
             srcValue == entries[1][2]
         IN  baseMergeEntries(
                 IF isObject(srcValue)
                 THEN baseMergeDeep(object, key, srcValue)
                 ELSE assignMergeValue(object, key, srcValue),
                 Tail(entries))

\* baseMerge: every property of the source, in its iteration order (the
\* destination is always an object or an array; baseMergeEntries and merge
\* test it so that its value is computed before the next step)
baseMerge(object, source) == baseMergeEntries(object, Entries(source))

\* merge(object, ...sources): the sources are merged in from left to right
RECURSIVE merge(_, _)
merge(object, sources) ==
    IF sources = <<>> \/ ~isObject(object) THEN object
    ELSE merge(baseMerge(object, sources[1]), Tail(sources))

\* Objects have an identity: NewObjects tags the objects a run of calls
\* creates, in creation order, with distinct identities.
NewObjects(values) == [i \in 1..Len(values) |-> [oid |-> i, val |-> values[i]]]

\* lodash uniq compares with SameValueZero, which for two objects is identity:
\* the first occurrence of every object is kept
uniq(objects) ==
    LET keep == {i \in 1..Len(objects) :
                    \A j \in 1..(i - 1) : objects[j].oid # objects[i].oid}
        F[i \in 0..Len(objects)] ==
            IF i = 0 THEN <<>>
            ELSE IF i \in keep THEN Append(F[i - 1], objects[i].val)
            ELSE F[i - 1]
    IN  F[Len(objects)]

\* A faulty variant of uniqBy: nothing is left out.
uniqBy_All(collection, keys) == collection

\* lodash uniqBy, keys[i] being the iteratee's result for collection[i]: the
\* first element of every key is kept
uniqBy(collection, keys) ==
    LET F[i \in 0..Len(collection)] ==
            IF i = 0 THEN <<>>
            ELSE IF \E j \in 1..(i - 1) : keys[j] = keys[i] THEN F[i - 1]
            ELSE Append(F[i - 1], collection[i])
    IN  F[Len(collection)]

\* lodash groupBy, keys[i] being the iteratee's result for collection[i]: an
\* object from every key to the list of its elements, in their order
groupBy(collection, keys) ==
    LET F[i \in 0..Len(collection)] ==
            IF i = 0 THEN JObj(<<>>)
            ELSE IF HasKey(F[i - 1], keys[i])
            THEN Put(F[i - 1], keys[i],
                     Append(Get(F[i - 1], keys[i]), collection[i]))
            ELSE Put(F[i - 1], keys[i], <<collection[i]>>)
    IN  F[Len(collection)]

\* Object.values
ObjectValues(o) == [i \in 1..Len(o.v) |-> o.v[i][2]]

\* A faulty variant of Stringify: an undefined property is written as the
\* empty string.
RECURSIVE Stringify_UndefinedAsEmpty(_)
Stringify_UndefinedAsEmpty(x) ==
    IF x.t = "obj"
    THEN JObj([i \in 1..Len(x.v) |->
                 <<x.v[i][1], Stringify_UndefinedAsEmpty(x.v[i][2])>>])
    ELSE IF x.t = "arr"
    THEN JArr([i \in 1..Len(x.v) |-> Stringify_UndefinedAsEmpty(x.v[i])])
    ELSE IF x.t = "undef" THEN JStr(<<>>)
    ELSE x

\* JSON.stringify followed by reading the text back: a property whose value
\* is undefined is not written
RECURSIVE Stringify(_)
RECURSIVE StringifyProps(_)
StringifyProps(props) ==
    IF props = <<>> THEN <<>>
    ELSE IF props[1][2].t = "undef" THEN StringifyProps(Tail(props))
    ELSE <<<<props[1][1], Stringify(props[1][2])>>>> \o StringifyProps(Tail(props))

Stringify(x) ==
    IF x.t = "obj" THEN JObj(StringifyProps(x.v))
    ELSE IF x.t = "arr" THEN JArr([i \in 1..Len(x.v) |-> Stringify(x.v[i])])
    ELSE x

----------------------------------------------------------------------------
(* types.ts *)

\* String.prototype.toUpperCase, symbol by symbol: a lower-case letter becomes
\* its capital, every other character stays
UpperSymbol(c) ==
    CASE c = "a" -> "A" [] c = "b" -> "B" [] c = "c" -> "C" [] c = "d" -> "D"
      [] c = "e" -> "E" [] c = "f" -> "F" [] c = "g" -> "G" [] c = "h" -> "H"
      [] c = "i" -> "I" [] c = "j" -> "J" [] c = "k" -> "K" [] c = "l" -> "L"
      [] c = "m" -> "M" [] c = "n" -> "N" [] c = "o" -> "O" [] c = "p" -> "P"
      [] c = "q" -> "Q" [] c = "r" -> "R" [] c = "s" -> "S" [] c = "t" -> "T"
      [] c = "u" -> "U" [] c = "v" -> "V" [] c = "w" -> "W" [] c = "x" -> "X"
      [] c = "y" -> "Y" [] c = "z" -> "Z"
      [] c = "_table_name" -> "_TABLE_NAME"
      [] OTHER -> c

\* A faulty variant of toUpperCase: the string is left as it is.
toUpperCase_Unchanged(s) == s

toUpperCase(s) == [i \in 1..Len(s) |-> UpperSymbol(s[i])]

ResourceOutputReference(category, resource, output) ==
    [t |-> "obj", class |-> "ResourceOutputReference", category |-> category,
     resource |-> resource, output |-> output]

\* defaultValue is a string value, or undefined when it was not given
Parameter(paramName, defaultValue) ==
    [t |-> "obj", class |-> "Parameter", name |-> paramName,
     defaultValue |-> defaultValue]

ApiTable(apiName, tableName) ==
    [type |-> "apiTable", apiName |-> apiName, tableName |-> tableName]

UserPool(authName) == [type |-> "amplifyAuthUserPool", authName |-> authName]

apiTableOutputReference(table) ==
    ResourceOutputReference(<<"a", "p", "i">>, table.apiName, <<"GraphQLAPIIdOutput">>)

userPoolOutputReference(userPool, output) ==
    ResourceOutputReference(<<"a", "u", "t", "h">>, userPool.authName, output)

TablePermission(table, actions) ==
    [type |-> "TablePermission", table |-> table, actions |-> actions]

UserPoolPermission(userPool, actions) ==
    [type |-> "UserPoolPermission", userPool |-> userPool, actions |-> actions]

SendMailPermission(identity) ==
    [type |-> "SendMailPermission", identity |-> identity]

\* actions are strings; a resource is a string value or a ResourceOutputReference
IAMActionPermission(actions, resources) ==
    [type |-> "IAMActionPermission", actions |-> actions, resources |-> resources]

isTablePermission(p) == p.type = "TablePermission"
isSendMailPermission(p) == p.type = "SendMailPermission"
isIAMActionPermission(p) == p.type = "IAMActionPermission"

reducePermission(fT(_), fU(_), fS(_), fI(_), p) ==
    IF isTablePermission(p) THEN fT(p)
    ELSE IF isSendMailPermission(p) THEN fS(p)
    ELSE IF isIAMActionPermission(p) THEN fI(p)
    ELSE fU(p)

TableNameVariable(table) == [class |-> "TableNameVariable", table |-> table]

ParameterVariable(varName, parameter) ==
    [class |-> "ParameterVariable", name |-> varName, parameter |-> parameter]

ResourceOutputVariable(varName, reference) ==
    [class |-> "ResourceOutputVariable", name |-> varName, reference |-> reference]

CoalescedVariable(varName, first, second) ==
    [class |-> "CoalescedVariable", name |-> varName, first |-> first,
     second |-> second]

reduceVariableValueExpression(fP(_), fR(_), e) ==
    IF e.class = "Parameter" THEN fP(e) ELSE fR(e)

reduceEnvionmentVariable(fT(_), fP(_), fR(_), fC(_), v) ==
    IF v.class = "TableNameVariable" THEN fT(v)
    ELSE IF v.class = "ParameterVariable" THEN fP(v)
    ELSE IF v.class = "ResourceOutputVariable" THEN fR(v)
    ELSE fC(v)

----------------------------------------------------------------------------
(* buildCloudFormationTemplate.ts: the capability providers *)

\* a CFParameter; a property that is not set reads as undefined
CFParameter(paramName, defaultValue) ==
    [type |-> "Parameter", name |-> paramName, defaultValue |-> defaultValue]

ResourceOutputReferenceParameterProvider_toParameter(ref) ==
    CFParameter(ref.category \o ref.resource \o ref.output, JUndef)

ParameterExpressionProvider_toExpression(p) ==
    JObj(<< <<K("Ref"), JStr(p.name)>> >>)

ResourceOutputReferenceExpressionProvider_toExpression(ref) ==
    ParameterExpressionProvider_toExpression(
        ResourceOutputReferenceParameterProvider_toParameter(ref))

TableParameterProvider_toParameter(table) ==
    ResourceOutputReferenceParameterProvider_toParameter(
        apiTableOutputReference(table))

TableResourceOutputReferenceProvider_toOutputReferences(table) ==
    <<apiTableOutputReference(table)>>

\* { "Fn::ImportValue": { "Fn::Sub": `${<param>}:GetAtt:<tableName>Table:<attr>` } }
ImportTableAttribute(paramName, tableName, attr) ==
    JObj(<< <<K("Fn::ImportValue"),
              JObj(<< <<K("Fn::Sub"),
                        JStr(<<"$", "{">> \o paramName \o <<"}", ":GetAtt:">>
                             \o tableName \o <<"Table:", attr>>)>> >>)>> >>)

TableDetailProvider_toNameExpression(table) ==
    ImportTableAttribute(TableParameterProvider_toParameter(table).name,
                         table.tableName, "Name")

TableDetailProvider_toArnExpression(table) ==
    ImportTableAttribute(TableParameterProvider_toParameter(table).name,
                         table.tableName, "Arn")

TableDetailProvider_toStreamArnExpression(table) ==
    ImportTableAttribute(TableParameterProvider_toParameter(table).name,
                         table.tableName, "StreamArn")

\* A faulty variant of policyActionForTableAction: ReadItem is granted as
\* dynamodb:UpdateItem.
policyActionForTableAction_AlwaysUpdate(action) ==
    CASE action = <<"ReadItem">> -> L("dynamodb:UpdateItem")
      [] action = <<"UpdateItem">> -> L("dynamodb:UpdateItem")
      [] OTHER -> JUndef

policyActionForTableAction(action) ==
    CASE action = <<"ReadItem">> -> L("dynamodb:GetItem")
      [] action = <<"UpdateItem">> -> L("dynamodb:UpdateItem")
      [] OTHER -> JUndef

policyActionForUserPoolAction(action) ==
    IF action \in {<<"AdminDeleteUser">>, <<"AdminGetUser">>, <<"AdminCreateUser">>,
                   <<"AdminLinkProviderForUser">>, <<"ListUsers">>}
    THEN JStr(<<"cognito-idp:">> \o action)
    ELSE JUndef

RegionRef == JObj(<< <<K("Ref"), L("AWS::Region")>> >>)
AccountRef == JObj(<< <<K("Ref"), L("AWS::AccountId")>> >>)

isResourceOutputReference(resource) == resource.t # "str"

PermissionPolicyProvider_toPolicyStatement(permission) ==
    reducePermission(
      LAMBDA p :
        LET table == p.table
            tableParam == ResourceOutputReferenceParameterProvider_toParameter(
                              apiTableOutputReference(table))
        IN  JObj(<<
              <<K("Effect"), L("Allow")>>,
              <<K("Action"), JArr([i \in 1..Len(p.actions) |->
                                     policyActionForTableAction(p.actions[i])])>>,
              <<K("Resource"), JArr(<<
                 JObj(<< <<K("Fn::Sub"), JArr(<<
                    JStr(<<"arn:aws:dynamodb:", "$", "{", "region", "}", ":",
                           "$", "{", "account", "}", ":table/",
                           "$", "{", "tableName", "}">>),
                    JObj(<<
                      <<K("region"), RegionRef>>,
                      <<K("account"), AccountRef>>,
                      <<K("tableName"),
                        ImportTableAttribute(tableParam.name, table.tableName,
                                             "Name")>> >>) >>)>> >>) >>)>> >>),
      LAMBDA p :
        LET userPoolIdExpression ==
              ResourceOutputReferenceExpressionProvider_toExpression(
                  userPoolOutputReference(p.userPool, <<"UserPoolId">>))
        IN  JObj(<<
              <<K("Effect"), L("Allow")>>,
              <<K("Action"), JArr([i \in 1..Len(p.actions) |->
                                     policyActionForUserPoolAction(p.actions[i])])>>,
              <<K("Resource"),
                 JObj(<< <<K("Fn::Sub"), JArr(<<
                    JStr(<<"arn:aws:cognito-idp:", "$", "{", "region", "}", ":",
                           "$", "{", "account", "}", ":userpool/",
                           "$", "{", "userPoolId", "}">>),
                    JObj(<<
                      <<K("region"), RegionRef>>,
                      <<K("account"), AccountRef>>,
                      <<K("userPoolId"), userPoolIdExpression>> >>) >>)>> >>)>> >>),
      LAMBDA p :
        JObj(<<
          <<K("Effect"), L("Allow")>>,
          <<K("Action"), JArr(<<L("ses:SendEmail")>>)>>,
          <<K("Resource"),
            JObj(<< <<K("Fn::Sub"),
                      JStr(<<"$", "{">> \o p.identity.name \o <<"}">>)>> >>)>> >>),
      LAMBDA p :
        JObj(<<
          <<K("Effect"), L("Allow")>>,
          <<K("Action"), JArr([i \in 1..Len(p.actions) |-> JStr(p.actions[i])])>>,
          <<K("Resource"), JArr([i \in 1..Len(p.resources) |->
              IF p.resources[i].t = "str"   \* typeof resource === "string"
              THEN p.resources[i]
              ELSE ResourceOutputReferenceExpressionProvider_toExpression(
                       p.resources[i])])>> >>),
      permission)

valueToParameter(value) ==
    IF value.class = "ResourceOutputReference"
    THEN <<ResourceOutputReferenceParameterProvider_toParameter(value)>>
    ELSE <<CFParameter(value.name, value.defaultValue)>>

\* resources.filter(isResourceOutputReference)
FilterReferences(resources) ==
    LET F[i \in 0..Len(resources)] ==
            IF i = 0 THEN <<>>
            ELSE IF isResourceOutputReference(resources[i])
                 THEN Append(F[i - 1], resources[i])
                 ELSE F[i - 1]
    IN  F[Len(resources)]

\* A faulty variant of PermissionParametersProvider_toParameters: the references
\* among the resources of an IAMActionPermission are not declared.
PermissionParametersProvider_toParameters_IAMUndeclared(permission) ==
    reducePermission(
      LAMBDA p : <<ResourceOutputReferenceParameterProvider_toParameter(
                       apiTableOutputReference(p.table))>>,
      LAMBDA p : <<ResourceOutputReferenceParameterProvider_toParameter(
                       userPoolOutputReference(p.userPool, <<"UserPoolId">>))>>,
      LAMBDA p : valueToParameter(p.identity),
      LAMBDA p : <<>>,
      permission)

PermissionParametersProvider_toParameters(permission) ==
    reducePermission(
      LAMBDA p : <<ResourceOutputReferenceParameterProvider_toParameter(
                       apiTableOutputReference(p.table))>>,
      LAMBDA p : <<ResourceOutputReferenceParameterProvider_toParameter(
                       userPoolOutputReference(p.userPool, <<"UserPoolId">>))>>,
      LAMBDA p : valueToParameter(p.identity),
      LAMBDA p :
        LET refs == FilterReferences(p.resources)
        IN  [i \in 1..Len(refs) |->
               ResourceOutputReferenceParameterProvider_toParameter(refs[i])],
      permission)

\* A faulty variant of PermissionResourceOutputReferenceProvider_toOutputReferences:
\* an IAMActionPermission has no references.
PermissionResourceOutputReferenceProvider_toOutputReferences_IAMNone(permission) ==
    reducePermission(
      LAMBDA p : <<apiTableOutputReference(p.table)>>,
      LAMBDA p : <<userPoolOutputReference(p.userPool, <<"UserPoolId">>)>>,
      LAMBDA p : <<>>,
      LAMBDA p : <<>>,
      permission)

PermissionResourceOutputReferenceProvider_toOutputReferences(permission) ==
    reducePermission(
      LAMBDA p : <<apiTableOutputReference(p.table)>>,
      LAMBDA p : <<userPoolOutputReference(p.userPool, <<"UserPoolId">>)>>,
      LAMBDA p : <<>>,
      LAMBDA p : FilterReferences(p.resources),
      permission)

PermissionConditionProvider_toConditions(permission) == <<>>

EnvironmentVariableParametersProvider_toParameters(env) ==
    IF env.class = "TableNameVariable"
    THEN <<ResourceOutputReferenceParameterProvider_toParameter(
               apiTableOutputReference(env.table))>>
    ELSE IF env.class = "ParameterVariable"
    THEN valueToParameter(env.parameter)
    ELSE IF env.class = "ResourceOutputVariable"
    THEN <<ResourceOutputReferenceParameterProvider_toParameter(env.reference)>>
    ELSE valueToParameter(env.first) \o valueToParameter(env.second)

variableValueExpressionToCfExpression(e) ==
    reduceVariableValueExpression(
      ParameterExpressionProvider_toExpression,
      LAMBDA resource :
        JObj(<< <<K("Ref"),
                  JStr(ResourceOutputReferenceParameterProvider_toParameter(
                           resource).name)>> >>),
      e)

\* A faulty variant of conditionNameForEnv: the variable's name is left out.
conditionNameForEnv_Unnamed(env) == <<"FirstNotEmpty_">>

conditionNameForEnv(env) == <<"FirstNotEmpty_">> \o env.name

\* a CFVariableDefinition or CFConditionDefinition
Definition(defName, block) == [name |-> defName, block |-> block]

EnvironmentVariableVariableProvider_toVariable(env) ==
    reduceEnvionmentVariable(
      LAMBDA v :
        LET table == v.table
            tableOutputRef == apiTableOutputReference(table)
            tableParameter == ResourceOutputReferenceParameterProvider_toParameter(
                                  tableOutputRef)
        IN  Definition(toUpperCase(table.tableName \o <<"_table_name">>),
                       ImportTableAttribute(tableParameter.name, table.tableName,
                                            "Name")),
      LAMBDA v :
        Definition(v.name, ParameterExpressionProvider_toExpression(v.parameter)),
      LAMBDA v :
        Definition(v.name,
                   ResourceOutputReferenceExpressionProvider_toExpression(
                       v.reference)),
      LAMBDA coalescedVar :
        Definition(coalescedVar.name,
          JObj(<< <<K("Fn::If"), JArr(<<
                    JStr(conditionNameForEnv(coalescedVar)),
                    variableValueExpressionToCfExpression(coalescedVar.first),
                    variableValueExpressionToCfExpression(coalescedVar.second)
                  >>)>> >>)),
      env)

variableValueExpressionToResourceOutputReferences(e) ==
    reduceVariableValueExpression(LAMBDA p : <<>>, LAMBDA reference : <<reference>>, e)

EnvironmentVariableResourceOutputReferenceProvider_toOutputReferences(env) ==
    reduceEnvionmentVariable(
      LAMBDA v : <<apiTableOutputReference(v.table)>>,
      LAMBDA v : <<>>,
      LAMBDA v : <<v.reference>>,
      LAMBDA v : variableValueExpressionToResourceOutputReferences(v.first)
                 \o variableValueExpressionToResourceOutputReferences(v.second),
      env)

EnvironmentVariableConditionProvider_toConditions(env) ==
    reduceEnvionmentVariable(
      LAMBDA v : <<>>,
      LAMBDA v : <<>>,
      LAMBDA v : <<>>,
      LAMBDA c :
        <<Definition(conditionNameForEnv(c),
            JObj(<< <<K("Fn::Not"), JArr(<<
               JObj(<< <<K("Fn::Equals"), JArr(<<
                  variableValueExpressionToCfExpression(c.first),
                  JStr(<<>>) >>)>> >>) >>)>> >>))>>,
      env)

----------------------------------------------------------------------------
(* buildCloudFormationTemplate.ts: the template assembler *)

\* an optional value that was not given
Absent == [type |-> "undefined"]
IsGiven(x) == x.type # "undefined"

Map(f(_), list) == [i \in 1..Len(list) |-> f(list[i])]

\* const parameters = uniq(flatten([...]))
CollectedParameters(eventSource, environment, permissions) ==
    LET sourceTableParameter ==
            IF IsGiven(eventSource)
            THEN <<TableParameterProvider_toParameter(eventSource)>>
            ELSE <<>>
    IN  uniq(NewObjects(flatten(
            Map(EnvironmentVariableParametersProvider_toParameters, environment)
            \o Map(PermissionParametersProvider_toParameters, permissions)
            \o <<sourceTableParameter>>)))

\* const conditions = flatten([...])
CollectedConditions(environment, permissions) ==
    flatten(Map(EnvironmentVariableConditionProvider_toConditions, environment)
            \o Map(PermissionConditionProvider_toConditions, permissions))

String == L("String")
EnvName == <<"e", "n", "v">>
ResourceNameName == <<"r", "e", "s", "o", "u", "r", "c", "e", "N", "a", "m", "e">>

\* A faulty variant of FixedParameters: resourceName has no Default.
FixedParameters_NoDefault(name) ==
    JObj(<<
      <<EnvName, JObj(<< <<K("Type"), String>> >>)>>,
      <<ResourceNameName, JObj(<< <<K("Type"), String>> >>)>> >>)

FixedParameters(name) ==
    JObj(<<
      <<EnvName, JObj(<< <<K("Type"), String>> >>)>>,
      <<ResourceNameName, JObj(<< <<K("Type"), String>>,
                                  <<K("Default"), JStr(name)>> >>)>> >>)

\* { [parameter.name]: { Type: "String", Default: parameter.defaultValue } }
ParameterFragment(parameter) ==
    JObj(<< <<parameter.name,
              JObj(<< <<K("Type"), String>>,
                      <<K("Default"), parameter.defaultValue>> >>)>> >>)

\* A faulty variant of TemplateParameters: the fragments are listed one after
\* the other instead of being merged by key.
TemplateParameters_Listed(name, parameters) ==
    JObj(FixedParameters(name).v
         \o flatten([i \in 1..Len(parameters) |-> ParameterFragment(parameters[i]).v]))

TemplateParameters(name, parameters) ==
    merge(FixedParameters(name), Map(ParameterFragment, parameters))

EnvRef == JObj(<< <<K("Ref"), JStr(EnvName)>> >>)

FixedConditions ==
    JObj(<< <<K("ShouldNotCreateEnvResources"),
              JObj(<< <<K("Fn::Equals"), JArr(<<EnvRef, L("NONE")>>)>> >>)>> >>)

TemplateConditions(conditions) ==
    ObjectSpread(FixedConditions,
                 fromPairs([i \in 1..Len(conditions) |->
                              <<conditions[i].name, conditions[i].block>>]))

FixedVariables ==
    JObj(<< <<<<"E", "N", "V">>, EnvRef>>,
            <<<<"R", "E", "G", "I", "O", "N">>, RegionRef>> >>)

\* ({ name, block }) => ({ [name]: block })
VariableFragment(variable) == JObj(<< <<variable.name, variable.block>> >>)

EnvironmentVariables(environment) ==
    merge(FixedVariables,
          Map(VariableFragment,
              Map(EnvironmentVariableVariableProvider_toVariable, environment)))

\* "Fn::If": ["ShouldNotCreateEnvResources", base, join(base, "-", env)]
EnvSuffixedName(base) ==
    JObj(<< <<K("Fn::If"), JArr(<<
        L("ShouldNotCreateEnvResources"),
        JStr(base),
        JObj(<< <<K("Fn::Join"), JArr(<<
            JStr(<<>>),
            JArr(<<JStr(base), L("-"), EnvRef>>) >>)>> >>) >>)>> >>)

GetAtt(resource, attr) ==
    JObj(<< <<K("Fn::GetAtt"), JArr(<<L(resource), L(attr)>>)>> >>)

RoleRef == JObj(<< <<K("Ref"), L("LambdaExecutionRole")>> >>)
FunctionRef == JObj(<< <<K("Ref"), L("LambdaFunction")>> >>)

LambdaFunctionResource(name, environment) ==
    JObj(<<
      <<K("Type"), L("AWS::Lambda::Function")>>,
      <<K("Metadata"), JObj(<< <<K("aws:asset:path"), L("./src")>>,
                               <<K("aws:asset:property"), L("Code")>> >>)>>,
      <<K("Properties"), JObj(<<
         <<K("Handler"), L("index.handler")>>,
         <<K("FunctionName"), EnvSuffixedName(name)>>,
         <<K("Environment"),
           JObj(<< <<K("Variables"), EnvironmentVariables(environment)>> >>)>>,
         <<K("Role"), GetAtt("LambdaExecutionRole", "Arn")>>,
         <<K("Runtime"), L("nodejs10.x")>>,
         <<K("Timeout"), L("25")>> >>)>> >>)

LambdaExecutionRoleResource(name) ==
    JObj(<<
      <<K("Type"), L("AWS::IAM::Role")>>,
      <<K("Properties"), JObj(<<
         <<K("RoleName"), EnvSuffixedName(name \o <<"LambdaRole">>)>>,
         <<K("AssumeRolePolicyDocument"), JObj(<<
            <<K("Version"), L("2012-10-17")>>,
            <<K("Statement"), JArr(<< JObj(<<
               <<K("Effect"), L("Allow")>>,
               <<K("Principal"),
                 JObj(<< <<K("Service"), JArr(<<L("lambda.amazonaws.com")>>)>> >>)>>,
               <<K("Action"), JArr(<<L("sts:AssumeRole")>>)>> >>) >>)>> >>)>> >>)>> >>)

LogStatement ==
    JObj(<<
      <<K("Effect"), L("Allow")>>,
      <<K("Action"), JArr(<<L("logs:CreateLogGroup"), L("logs:CreateLogStream"),
                            L("logs:PutLogEvents")>>)>>,
      <<K("Resource"), JObj(<< <<K("Fn::Sub"), JArr(<<
          JStr(<<"arn:aws:logs:", "$", "{", "region", "}", ":",
                 "$", "{", "account", "}", ":log-group:/aws/lambda/",
                 "$", "{", "lambda", "}", ":log-stream:*">>),
          JObj(<< <<K("region"), RegionRef>>,
                  <<K("account"), AccountRef>>,
                  <<K("lambda"), FunctionRef>> >>) >>)>> >>)>> >>)

\* A faulty variant of ExecutionPolicyResource: a statement equal to an earlier
\* one is left out.
ExecutionPolicyResource_Deduplicated(permissions) ==
    LET all == <<LogStatement>>
               \o [i \in 1..Len(permissions) |->
                     PermissionPolicyProvider_toPolicyStatement(permissions[i])]
        F[i \in 0..Len(all)] ==
            IF i = 0 THEN <<>>
            ELSE IF \E j \in 1..(i - 1) : all[j] = all[i] THEN F[i - 1]
            ELSE Append(F[i - 1], all[i])
    IN  JObj(<<
          <<K("DependsOn"), JArr(<<L("LambdaExecutionRole")>>)>>,
          <<K("Type"), L("AWS::IAM::Policy")>>,
          <<K("Properties"), JObj(<<
             <<K("PolicyName"), L("lambda-execution-policy")>>,
             <<K("Roles"), JArr(<<RoleRef>>)>>,
             <<K("PolicyDocument"), JObj(<<
                <<K("Version"), L("2012-10-17")>>,
                <<K("Statement"), JArr(F[Len(all)])>> >>)>> >>)>> >>)

ExecutionPolicyResource(permissions) ==
    JObj(<<
      <<K("DependsOn"), JArr(<<L("LambdaExecutionRole")>>)>>,
      <<K("Type"), L("AWS::IAM::Policy")>>,
      <<K("Properties"), JObj(<<
         <<K("PolicyName"), L("lambda-execution-policy")>>,
         <<K("Roles"), JArr(<<RoleRef>>)>>,
         <<K("PolicyDocument"), JObj(<<
            <<K("Version"), L("2012-10-17")>>,
            <<K("Statement"),
              JArr(<<LogStatement>>
                   \o Map(PermissionPolicyProvider_toPolicyStatement,
                          permissions))>> >>)>> >>)>> >>)

LambdaTriggerPolicyResource(eventSource) ==
    JObj(<<
      <<K("DependsOn"), JArr(<<L("LambdaExecutionRole")>>)>>,
      <<K("Type"), L("AWS::IAM::Policy")>>,
      <<K("Properties"), JObj(<<
         <<K("PolicyName"), L("amplify-lambda-execution-policy")>>,
         <<K("Roles"), JArr(<<RoleRef>>)>>,
         <<K("PolicyDocument"), JObj(<<
            <<K("Version"), L("2012-10-17")>>,
            <<K("Statement"), JArr(<< JObj(<<
               <<K("Effect"), L("Allow")>>,
               <<K("Action"), JArr(<<L("dynamodb:DescribeStream"),
                                     L("dynamodb:GetRecords"),
                                     L("dynamodb:GetShardIterator"),
                                     L("dynamodb:ListStreams")>>)>>,
               <<K("Resource"),
                 TableDetailProvider_toStreamArnExpression(eventSource)>>
            >>) >>)>> >>)>> >>)>> >>)

\* A faulty variant of LambdaEventSourceMappingResource: the mapping does not
\* wait for the trigger policy.
LambdaEventSourceMappingResource_NoPolicy(eventSource) ==
    JObj(<<
      <<K("Type"), L("AWS::Lambda::EventSourceMapping")>>,
      <<K("DependsOn"), JArr(<<L("LambdaExecutionRole")>>)>>,
      <<K("Properties"), JObj(<<
         <<K("BatchSize"), JNum(1)>>,
         <<K("MaximumBatchingWindowInSeconds"), JNum(1)>>,
         <<K("Enabled"), JBool(TRUE)>>,
         <<K("EventSourceArn"), TableDetailProvider_toStreamArnExpression(eventSource)>>,
         <<K("FunctionName"), GetAtt("LambdaFunction", "Arn")>>,
         <<K("StartingPosition"), L("LATEST")>> >>)>> >>)

LambdaEventSourceMappingResource(eventSource) ==
    JObj(<<
      <<K("Type"), L("AWS::Lambda::EventSourceMapping")>>,
      <<K("DependsOn"), JArr(<<L("LambdaTriggerPolicy"), L("LambdaExecutionRole")>>)>>,
      <<K("Properties"), JObj(<<
         <<K("BatchSize"), JNum(1)>>,
         <<K("MaximumBatchingWindowInSeconds"), JNum(1)>>,
         <<K("Enabled"), JBool(TRUE)>>,
         <<K("EventSourceArn"), TableDetailProvider_toStreamArnExpression(eventSource)>>,
         <<K("FunctionName"), GetAtt("LambdaFunction", "Arn")>>,
         <<K("StartingPosition"), L("LATEST")>> >>)>> >>)

\* ...(eventSource ? { LambdaTriggerPolicy, LambdaEventSourceMapping } : {})
EventSourceResources(eventSource) ==
    IF IsGiven(eventSource)
    THEN JObj(<<
           <<K("LambdaTriggerPolicy"), LambdaTriggerPolicyResource(eventSource)>>,
           <<K("LambdaEventSourceMapping"),
             LambdaEventSourceMappingResource(eventSource)>> >>)
    ELSE JObj(<<>>)

TemplateResources(name, eventSource, environment, permissions) ==
    ObjectSpread(
      JObj(<<
        <<K("LambdaFunction"), LambdaFunctionResource(name, environment)>>,
        <<K("LambdaExecutionRole"), LambdaExecutionRoleResource(name)>>,
        <<K("lambdaexecutionpolicy"), ExecutionPolicyResource(permissions)>> >>),
      EventSourceResources(eventSource))

TemplateOutputs ==
    JObj(<<
      <<K("Name"), JObj(<< <<K("Value"), FunctionRef>> >>)>>,
      <<K("Arn"), JObj(<< <<K("Value"), GetAtt("LambdaFunction", "Arn")>> >>)>>,
      <<K("Region"), JObj(<< <<K("Value"), RegionRef>> >>)>>,
      <<K("LambdaExecutionRole"), JObj(<< <<K("Value"), RoleRef>> >>)>> >>)

buildCloudFormationTemplate(name, eventSource, environment, permissions) ==
    LET parameters == CollectedParameters(eventSource, environment, permissions)
        conditions == CollectedConditions(environment, permissions)
    IN  JObj(<<
          <<K("AWSTemplateFormatVersion"), L("2010-09-09")>>,
          <<K("Description"),
            L("Lambda resource stack creation using Amplify CLI")>>,
          <<K("Parameters"), TemplateParameters(name, parameters)>>,
          <<K("Conditions"), TemplateConditions(conditions)>>,
          <<K("Resources"),
            TemplateResources(name, eventSource, environment, permissions)>>,
          <<K("Outputs"), TemplateOutputs>> >>)

----------------------------------------------------------------------------
(* The function definitions compiled (the metadata module of a handler) *)

\* permissions plus environment variables of one definition
MaxItems == 2

GraphQLAPIIdOutput == <<"GraphQLAPIIdOutput">>

TableAT == ApiTable(<<"a">>, <<"t">>)
TableAUpperT == ApiTable(<<"a">>, <<"T">>)
TableBUpperT == ApiTable(<<"b">>, <<"T">>)
TableMyApiTodo == ApiTable(<<"m", "y", "A", "p", "i">>, <<"T", "o", "d", "o">>)
PoolU == UserPool(<<"u">>)

ParamP == Parameter(<<"p">>, JUndef)
ParamPDefault == Parameter(<<"p">>, JStr(<<"d">>))
ParamQEmptyDefault == Parameter(<<"q">>, JStr(<<>>))
ParamEnvDefault == Parameter(EnvName, JStr(<<"x">>))
ParamResourceName == Parameter(ResourceNameName, JUndef)
\* parameters whose names are numerals
Param1 == Parameter(<<"1">>, JUndef)
Param2 == Parameter(<<"2">>, JUndef)
\* a parameter spelled like the derived name of table a's reference
ParamLikeTableA ==
    Parameter(<<"a", "p", "i", "a">> \o GraphQLAPIIdOutput, JStr(<<"d">>))

RefTableA == ResourceOutputReference(<<"a", "p", "i">>, <<"a">>, GraphQLAPIIdOutput)
\* another reference with the same concatenation as RefTableA
RefSplit == ResourceOutputReference(<<"a", "p">>, <<"i", "a">>, GraphQLAPIIdOutput)
RefEndpointA ==
    ResourceOutputReference(<<"a", "p", "i">>, <<"a">>, <<"GraphQLAPIEndpointOutput">>)
RefPoolU == ResourceOutputReference(<<"a", "u", "t", "h">>, <<"u">>, <<"UserPoolId">>)

Permissions ==
    { TablePermission(TableAT, <<<<"UpdateItem">>, <<"ReadItem">>>>),
      TablePermission(TableAUpperT, <<>>),
      UserPoolPermission(PoolU, <<<<"ListUsers">>, <<"AdminGetUser">>>>),
      SendMailPermission(ParamP),
      SendMailPermission(ParamPDefault),
      SendMailPermission(ParamEnvDefault),
      SendMailPermission(ParamLikeTableA),
      IAMActionPermission(<<<<"s3:GetObject">>>>, <<L("*"), RefSplit>>),
      IAMActionPermission(<<>>, <<RefEndpointA, RefPoolU>>) }

VarX == <<"X">>
VarENV == <<"E", "N", "V">>

EnvironmentVariablesOffered ==
    { TableNameVariable(TableAT),
      TableNameVariable(TableBUpperT),
      TableNameVariable(TableMyApiTodo),
      ParameterVariable(VarX, ParamPDefault),
      ParameterVariable(VarENV, ParamResourceName),
      ParameterVariable(<<"T", "_TABLE_NAME">>, ParamQEmptyDefault),
      ResourceOutputVariable(VarX, RefPoolU),
      CoalescedVariable(VarX, ParamP, RefTableA),
      CoalescedVariable(VarX, RefEndpointA, ParamQEmptyDefault),
      CoalescedVariable(VarENV, Param2, Param1) }

EventSources == {Absent, TableAT, TableBUpperT}

HandlerDirs == {<<"f">>, <<"g", "h">>}

\* the definitions with k permissions and j environment variables
Definitions(k, j) ==
    [permissions : [1..k -> Permissions],
     environment : [1..j -> EnvironmentVariablesOffered],
     eventSource : EventSources]

----------------------------------------------------------------------------
(* buildFunction: compile the definition, write the template file, then    *)
(* register the function and what it depends on in backend-config.json     *)

\* the "function" section of backend-config.json before the run: it has an
\* entry, from an earlier run, for the function f
BackendConfigBefore ==
    JObj(<< <<K("f"),
              JObj(<< <<K("service"), L("Lambda")>>,
                      <<K("providerPlugin"), L("awscloudformation")>>,
                      <<K("build"), JBool(TRUE)>>,
                      <<K("dependsOn"), JArr(<<>>)>> >>)>> >>)

\* the references of the environment variables, the permissions and the
\* event source, in that order
DiscoveredReferences(d) ==
    flatten(Map(EnvironmentVariableResourceOutputReferenceProvider_toOutputReferences,
                d.environment))
    \o flatten(Map(PermissionResourceOutputReferenceProvider_toOutputReferences,
                   d.permissions))
    \o (IF IsGiven(d.eventSource)
        THEN TableResourceOutputReferenceProvider_toOutputReferences(d.eventSource)
        ELSE <<>>)

\* `${category}-${resource}-${output}`
ReferenceKey(ref) == ref.category \o <<"-">> \o ref.resource \o <<"-">> \o ref.output

\* `${category}-${resource}`
ResourceKey(ref) == ref.category \o <<"-">> \o ref.resource

\* const resourceReferences = groupBy(uniqBy([...], ...), ...)
ResourceReferences(d) ==
    LET all == DiscoveredReferences(d)
        distinct == uniqBy(all, Map(ReferenceKey, all))
    IN  groupBy(distinct, Map(ResourceKey, distinct))

\* (references) => ({ category, resourceName, attributes })
DependsOnEntry(references) ==
    JObj(<< <<K("category"), JStr(references[1].category)>>,
            <<K("resourceName"), JStr(references[1].resource)>>,
            <<K("attributes"),
              JArr([i \in 1..Len(references) |-> JStr(references[i].output)])>> >>)

\* backendConfig.function[handlerDir] = { ... }
FunctionEntry(d) ==
    JObj(<< <<K("service"), L("Lambda")>>,
            <<K("providerPlugin"), L("awscloudformation")>>,
            <<K("build"), JBool(TRUE)>>,
            <<K("dependsOn"),
              JArr(Map(DependsOnEntry, ObjectValues(ResourceReferences(d))))>> >>)

Init ==
    /\ handlerDir \in HandlerDirs
    /\ \E k \in 0..MaxItems : \E j \in 0..(MaxItems - k) :
          metadata \in Definitions(k, j)
    /\ cfTemplate = JUndef
    /\ templateFile = JUndef
    /\ backendConfigFile = BackendConfigBefore
    /\ pc = "start"

\* const cfTemplate = buildCloudFormationTemplate({...})
BuildTemplate ==
    /\ pc = "start"
    /\ cfTemplate' = buildCloudFormationTemplate(handlerDir, metadata.eventSource,
                                                 metadata.environment,
                                                 metadata.permissions)
    /\ pc' = "built"
    /\ UNCHANGED <<handlerDir, metadata, templateFile, backendConfigFile>>

\* fs.writeFile(..., JSON.stringify(cfTemplate, null, "\t"), "utf8")
WriteTemplate ==
    /\ pc = "built"
    /\ templateFile' = Stringify(cfTemplate)
    /\ pc' = "written"
    /\ UNCHANGED <<handlerDir, metadata, cfTemplate, backendConfigFile>>

\* backendConfig = JSON.parse(readFile(backendConfigFile));
\* backendConfig.function[handlerDir] = {...};
\* fs.writeFile(backendConfigFile, JSON.stringify(backendConfig, null, 2))
UpdateBackendConfig ==
    /\ pc = "written"
    /\ LET backendConfig == backendConfigFile
       IN  backendConfigFile' =
             Stringify(Put(backendConfig, handlerDir, FunctionEntry(metadata)))
    /\ pc' = "registered"
    /\ UNCHANGED <<handlerDir, metadata, cfTemplate, templateFile>>

Next == BuildTemplate \/ WriteTemplate \/ UpdateBackendConfig

Spec == Init /\ [][Next]_vars

----------------------------------------------------------------------------
(* Reading a document *)

\* structural equality of two values; the property order of an object does
\* not count
RECURSIVE JEq(_, _)
JEq(a, b) ==
    IF a.t # b.t THEN FALSE
    ELSE IF a.t = "undef" THEN TRUE
    ELSE IF a.t = "arr"
    THEN /\ Len(a.v) = Len(b.v)
         /\ \A i \in 1..Len(a.v) : JEq(a.v[i], b.v[i])
    ELSE IF a.t = "obj"
    THEN /\ Len(a.v) = Len(b.v)
         /\ \A i \in 1..Len(a.v) :
              /\ HasKey(b, a.v[i][1])
              /\ JEq(a.v[i][2], Get(b, a.v[i][1]))
    ELSE a.v = b.v

\* doc[path[1]][path[2]]...
RECURSIVE At(_, _)
At(doc, path) ==
    IF path = <<>> THEN doc ELSE At(Get(doc, path[1]), Tail(path))

KeySet(o) == {o.v[i][1] : i \in 1..Len(o.v)}

\* how many properties of the object have this key
KeyCount(o, k) == Cardinality({i \in 1..Len(o.v) : o.v[i][1] = k})

Compiled == pc \in {"built", "written", "registered"}

ParametersOf(doc) == Get(doc, K("Parameters"))
ConditionsOf(doc) == Get(doc, K("Conditions"))
ResourcesOf(doc) == Get(doc, K("Resources"))
VariablesOf(doc) ==
    At(doc, <<K("Resources"), K("LambdaFunction"), K("Properties"),
              K("Environment"), K("Variables")>>)
StatementsOf(doc) ==
    At(doc, <<K("Resources"), K("lambdaexecutionpolicy"), K("Properties"),
              K("PolicyDocument"), K("Statement")>>)

\* the names between "${" and "}" of an Fn::Sub template string
RECURSIVE SubNames(_)
SubNames(s) ==
    IF Len(s) < 3 THEN {}
    ELSE IF s[1] = "$" /\ s[2] = "{"
    THEN LET rest == SubSeq(s, 3, Len(s))
             ends == {i \in 1..Len(rest) : rest[i] = "}"}
         IN  IF ends = {} THEN {}
             ELSE LET e == CHOOSE i \in ends : \A j \in ends : i <= j
                  IN  {SubSeq(rest, 1, e - 1)}
                      \cup SubNames(SubSeq(rest, e + 1, Len(rest)))
    ELSE SubNames(Tail(s))

\* the names an expression tree refers to from outside itself: the targets of
\* Ref, and the ${...} names of Fn::Sub that its own variable map does not bind
RECURSIVE RefNames(_)
RefNames(x) ==
    IF x.t = "arr" THEN UNION {RefNames(x.v[i]) : i \in 1..Len(x.v)}
    ELSE IF x.t = "obj"
    THEN UNION {
           LET k == x.v[i][1]
               val == x.v[i][2]
           IN  IF k = K("Ref") /\ val.t = "str" THEN {val.v}
               ELSE IF k = K("Fn::Sub") /\ val.t = "str" THEN SubNames(val.v)
               ELSE IF k = K("Fn::Sub") /\ val.t = "arr"
               THEN (SubNames(val.v[1].v) \ KeySet(val.v[2]))
                    \cup RefNames(val.v[2])
               ELSE RefNames(val)
           : i \in 1..Len(x.v)}
    ELSE {}

\* the condition names the Fn::If expressions of a tree use
RECURSIVE IfConditions(_)
IfConditions(x) ==
    IF x.t = "arr" THEN UNION {IfConditions(x.v[i]) : i \in 1..Len(x.v)}
    ELSE IF x.t = "obj"
    THEN UNION {
           LET k == x.v[i][1]
               val == x.v[i][2]
           IN  IF k = K("Fn::If") /\ val.t = "arr" /\ Len(val.v) > 0
                  /\ val.v[1].t = "str"
               THEN {val.v[1].v} \cup IfConditions(val)
               ELSE IfConditions(val)
           : i \in 1..Len(x.v)}
    ELSE {}

PseudoParameters == {<<"AWS::Region">>, <<"AWS::AccountId">>}

\* the statements of the permissions: all but the leading log statement
PermissionStatements(doc) == JArr(Tail(StatementsOf(doc).v))

\* the event-source stream ARN, where the document has one
StreamArns(doc) ==
    JArr(<<At(doc, <<K("Resources"), K("LambdaTriggerPolicy"), K("Properties"),
                     K("PolicyDocument"), K("Statement")>>),
           At(doc, <<K("Resources"), K("LambdaEventSourceMapping"),
                     K("Properties"), K("EventSourceArn")>>)>>)

\* the parameter names the generated parts of the document refer to
ReferencedParameters(doc) ==
    (RefNames(PermissionStatements(doc)) \cup RefNames(VariablesOf(doc))
       \cup RefNames(ConditionsOf(doc)) \cup RefNames(StreamArns(doc)))
    \ PseudoParameters

----------------------------------------------------------------------------
(* Claims *)

\* C1: every parameter name the compiled document refers to (Ref or ${...} in
\* a permission's policy statement, an environment-variable value, a condition
\* or the event-source stream ARN) is a key of Parameters, and every condition
\* name an Fn::If uses is a key of Conditions.  Names are alphanumeric.
C1_ReferencesAreDeclared ==
    Compiled =>
      /\ ReferencedParameters(cfTemplate) \subseteq KeySet(ParametersOf(cfTemplate))
      /\ IfConditions(ResourcesOf(cfTemplate)) \subseteq KeySet(ConditionsOf(cfTemplate))

\* C1 witness: a compiled document that refers to a collected parameter from a
\* permission statement and uses a generated condition
C1_Witness ==
    /\ Compiled
    /\ \E n \in RefNames(PermissionStatements(cfTemplate)) :
          n \notin PseudoParameters \cup {EnvName, ResourceNameName}
    /\ \E c \in IfConditions(VariablesOf(cfTemplate)) : Len(c) > 1

\* The tables a definition refers to: those of its TableNameVariables, of its
\* TablePermissions, and its event source.
SelectSeq2(list, Test(_)) ==
    LET F[i \in 0..Len(list)] ==
            IF i = 0 THEN <<>>
            ELSE IF Test(list[i]) THEN Append(F[i - 1], list[i]) ELSE F[i - 1]
    IN  F[Len(list)]

TablesReferenced(d) ==
    LET vars_ == SelectSeq2(d.environment, LAMBDA v : v.class = "TableNameVariable")
        perms == SelectSeq2(d.permissions, LAMBDA q : q.type = "TablePermission")
    IN  [i \in 1..Len(vars_) |-> vars_[i].table]
        \o [i \in 1..Len(perms) |-> perms[i].table]
        \o (IF IsGiven(d.eventSource) THEN <<d.eventSource>> ELSE <<>>)

\* "api" + apiName + "GraphQLAPIIdOutput"
TableParameterName(table) ==
    <<"a", "p", "i">> \o table.apiName \o <<"GraphQLAPIIdOutput">>

\* C2: when two or more permissions, environment variables or the event source
\* of a definition refer to the same Table, Parameters holds exactly one entry
\* named "api" + apiName + "GraphQLAPIIdOutput".
C2_OneParameterPerTable ==
    Compiled =>
      LET tables == TablesReferenced(metadata)
      IN  \A i \in 1..Len(tables) : \A j \in 1..Len(tables) :
            (i < j /\ tables[i] = tables[j]) =>
              KeyCount(ParametersOf(cfTemplate), TableParameterName(tables[i])) = 1

\* C2 witness: a compiled definition with two TablePermissions on one table
C2_Witness ==
    /\ Compiled
    /\ Len(metadata.permissions) = 2
    /\ metadata.permissions[1].type = "TablePermission"
    /\ metadata.permissions[2] = metadata.permissions[1]
    /\ KeyCount(ParametersOf(cfTemplate),
                TableParameterName(metadata.permissions[1].table)) = 1

\* C3 (as claimed): for every Permission of the definition, also one with no
\* actions, toPolicyStatement gives Effect "Allow" and a non-empty Action list.
C3_AllowWithActions ==
    Compiled =>
      \A i \in 1..Len(metadata.permissions) :
        LET statement == PermissionPolicyProvider_toPolicyStatement(
                             metadata.permissions[i])
        IN  /\ JEq(Get(statement, K("Effect")), L("Allow"))
            /\ Get(statement, K("Action")).t = "arr"
            /\ Get(statement, K("Action")).v # <<>>
            /\ JEq(statement, StatementsOf(cfTemplate).v[i + 1])

\* What the providers are to require, stated from the definition: the name
\* and default of the parameter behind a Parameter or a reference.
Origin(value) ==
    IF value.class = "Parameter"
    THEN [name |-> value.name, default |-> value.defaultValue]
    ELSE [name |-> value.category \o value.resource \o value.output,
          default |-> JUndef]

TableOrigin(table) == [name |-> TableParameterName(table), default |-> JUndef]

PermissionOrigins(q) ==
    IF q.type = "TablePermission" THEN <<TableOrigin(q.table)>>
    ELSE IF q.type = "UserPoolPermission"
    THEN <<[name |-> <<"a", "u", "t", "h">> \o q.userPool.authName \o <<"UserPoolId">>,
            default |-> JUndef]>>
    ELSE IF q.type = "SendMailPermission" THEN <<Origin(q.identity)>>
    ELSE LET refs == SelectSeq2(q.resources, LAMBDA r : r.t # "str")
         IN  [i \in 1..Len(refs) |-> Origin(refs[i])]

VariableOrigins(v) ==
    IF v.class = "TableNameVariable" THEN <<TableOrigin(v.table)>>
    ELSE IF v.class = "ParameterVariable" THEN <<Origin(v.parameter)>>
    ELSE IF v.class = "ResourceOutputVariable" THEN <<Origin(v.reference)>>
    ELSE <<Origin(v.first), Origin(v.second)>>

\* every parameter the definition requires, in the order of collection:
\* environment variables, permissions, event source
Origins(d) ==
    flatten([i \in 1..Len(d.environment) |-> VariableOrigins(d.environment[i])])
    \o flatten([i \in 1..Len(d.permissions) |-> PermissionOrigins(d.permissions[i])])
    \o (IF IsGiven(d.eventSource) THEN <<TableOrigin(d.eventSource)>> ELSE <<>>)

\* the fixed parameters, ahead of the collected ones
FixedOrigins(fname) ==
    <<[name |-> EnvName, default |-> JUndef],
      [name |-> ResourceNameName, default |-> JStr(fname)]>>

\* the default of the last of the origins named n that gives one
RECURSIVE LastDefault(_, _)
LastDefault(origins, n) ==
    IF origins = <<>> THEN JUndef
    ELSE LET last == origins[Len(origins)]
         IN  IF last.name = n /\ last.default.t # "undef" THEN last.default
             ELSE LastDefault(SubSeq(origins, 1, Len(origins) - 1), n)

\* C4 (as claimed): Parameters holds env as { Type: "String" } with no default
\* and resourceName as { Type: "String", Default: <function name> }, whatever
\* parameters the definition requires.
C4_FixedParametersAsWritten ==
    Compiled =>
      /\ JEq(Stringify(Get(ParametersOf(cfTemplate), EnvName)),
             JObj(<< <<K("Type"), L("String")>> >>))
      /\ JEq(Stringify(Get(ParametersOf(cfTemplate), ResourceNameName)),
             JObj(<< <<K("Type"), L("String")>>,
                     <<K("Default"), JStr(handlerDir)>> >>))

\* C4 (amended): Parameters always holds env and resourceName, of Type
\* "String"; env has no default and resourceName the function's name as its
\* Default unless a collected parameter of that name gives a default, and then
\* the Default is that of the last such parameter.
C4_FixedParametersPresent ==
    Compiled =>
      \A n \in {EnvName, ResourceNameName} :
        LET entry == Get(ParametersOf(cfTemplate), n)
        IN  /\ KeyCount(ParametersOf(cfTemplate), n) = 1
            /\ JEq(Get(entry, K("Type")), L("String"))
            /\ JEq(Get(entry, K("Default")),
                   LastDefault(FixedOrigins(handlerDir) \o Origins(metadata), n))

\* C4 witness: a compiled definition that requires a parameter named env with
\* a default, and one named resourceName without
C4_Witness ==
    /\ Compiled
    /\ \E i \in 1..Len(Origins(metadata)) :
         /\ Origins(metadata)[i].name = EnvName
         /\ Origins(metadata)[i].default.t = "str"
    /\ \E i \in 1..Len(Origins(metadata)) :
         /\ Origins(metadata)[i].name = ResourceNameName
         /\ Origins(metadata)[i].default.t = "undef"
    /\ JEq(Get(Get(ParametersOf(cfTemplate), ResourceNameName), K("Default")),
           JStr(handlerDir))

\* the last of the origins named n
LastOrigin(origins, n) ==
    origins[CHOOSE i \in 1..Len(origins) :
               /\ origins[i].name = n
               /\ \A j \in (i + 1)..Len(origins) : origins[j].name # n]

\* { Type: "String", Default: <default> } as written to the file
WrittenEntry(default) ==
    Stringify(JObj(<< <<K("Type"), L("String")>>, <<K("Default"), default>> >>))

\* C5 (as claimed): when fragments merged into Parameters share a name, the
\* entry is exactly the later fragment's entry; a later parameter without a
\* default leaves no Default, even when an earlier one gave a default.
C5_LaterParameterWins ==
    Compiled =>
      LET fragments == FixedOrigins(handlerDir) \o Origins(metadata)
      IN  \A n \in KeySet(ParametersOf(cfTemplate)) :
            JEq(Stringify(Get(ParametersOf(cfTemplate), n)),
                WrittenEntry(LastOrigin(fragments, n).default))

\* the variable fragments merged into Environment.Variables: ENV and REGION,
\* then toVariable of every declared variable
VariableFragments(d) ==
    <<[name |-> <<"E", "N", "V">>,
       block |-> JObj(<< <<K("Ref"), JStr(<<"e", "n", "v">>)>> >>)],
      [name |-> <<"R", "E", "G", "I", "O", "N">>,
       block |-> JObj(<< <<K("Ref"), L("AWS::Region")>> >>)]>>
    \o [i \in 1..Len(d.environment) |->
          EnvironmentVariableVariableProvider_toVariable(d.environment[i])]

\* C6 (as claimed): every entry of Environment.Variables equals exactly the
\* toVariable block of the last fragment of that name; no field of an earlier
\* fragment of the same name survives.
C6_LaterVariableWins ==
    Compiled =>
      LET fragments == VariableFragments(metadata)
      IN  \A n \in KeySet(VariablesOf(cfTemplate)) :
            JEq(Get(VariablesOf(cfTemplate), n), LastOrigin(fragments, n).block)

\* C7 (as claimed): for every parameter the definition requires, the written
\* entry's Default is exactly what that parameter gave: its default value, or
\* no Default at all when it gave none or derives from a reference.
C7_DefaultAsSupplied ==
    pc = "written" =>
      \A i \in 1..Len(Origins(metadata)) :
        LET origin == Origins(metadata)[i]
            entry == Get(ParametersOf(templateFile), origin.name)
        IN  /\ HasKey(entry, K("Default")) = (origin.default.t # "undef")
            /\ JEq(Get(entry, K("Default")), origin.default)

\* C7 (amended): a written Parameters entry carries a Default only when a
\* fragment of its name (a required parameter, or the fixed resourceName) gave
\* a default value, and then that of the last fragment that gave one; when
\* none did, as for a parameter derived from a reference or constructed
\* without a default whose name no defaulted fragment shares, the entry has no
\* Default property at all.
C7_DefaultOfLastSupplier ==
    pc = "written" =>
      LET fragments == FixedOrigins(handlerDir) \o Origins(metadata)
      IN  /\ KeySet(ParametersOf(templateFile)) =
               {fragments[i].name : i \in 1..Len(fragments)}
          /\ \A n \in KeySet(ParametersOf(templateFile)) :
               LET entry == Get(ParametersOf(templateFile), n)
                   default == LastDefault(fragments, n)
               IN  /\ HasKey(entry, K("Default")) = (default.t # "undef")
                   /\ JEq(Get(entry, K("Default")), default)

\* C7 witness: a written document with an entry without Default for a
\* reference, and an entry whose Default is the empty string that was given
C7_Witness ==
    /\ pc = "written"
    /\ \E i \in 1..Len(Origins(metadata)) :
         /\ Origins(metadata)[i].default.t = "undef"
         /\ ~HasKey(Get(ParametersOf(templateFile), Origins(metadata)[i].name),
                    K("Default"))
    /\ \E i \in 1..Len(Origins(metadata)) :
         /\ Origins(metadata)[i].default = JStr(<<>>)
         /\ JEq(At(ParametersOf(templateFile),
                   <<Origins(metadata)[i].name, K("Default")>>), JStr(<<>>))

DependsOnOf(resource) ==
    LET d == Get(resource, K("DependsOn"))
    IN  IF d.t = "arr" THEN {d.v[i].v : i \in 1..Len(d.v)} ELSE {}

\* C8: without an eventSource the Resources are exactly LambdaFunction,
\* LambdaExecutionRole and lambdaexecutionpolicy; with one, LambdaTriggerPolicy
\* and LambdaEventSourceMapping are there too, both depend on
\* LambdaExecutionRole, and the mapping also on LambdaTriggerPolicy.
C8_EventSourceResources ==
    Compiled =>
      LET resources == ResourcesOf(cfTemplate)
          fixed == {K("LambdaFunction"), K("LambdaExecutionRole"),
                    K("lambdaexecutionpolicy")}
          extra == {K("LambdaTriggerPolicy"), K("LambdaEventSourceMapping")}
      IN  /\ Len(resources.v) = Cardinality(KeySet(resources))
          /\ IF metadata.eventSource = Absent
             THEN KeySet(resources) = fixed
             ELSE /\ KeySet(resources) = fixed \cup extra
                  /\ K("LambdaExecutionRole") \in
                       DependsOnOf(Get(resources, K("LambdaTriggerPolicy")))
                  /\ {K("LambdaExecutionRole"), K("LambdaTriggerPolicy")} \subseteq
                       DependsOnOf(Get(resources, K("LambdaEventSourceMapping")))

\* C8 witness: a compiled definition with an event source
C8_Witness ==
    /\ Compiled
    /\ metadata.eventSource # Absent
    /\ HasKey(ResourcesOf(cfTemplate), K("LambdaEventSourceMapping"))

\* the runtime expression of a leg: Ref of the parameter's name, or of the
\* reference's category + resource + output
LegExpression(leg) == JObj(<< <<K("Ref"), JStr(Origin(leg).name)>> >>)

\* Not(Equals(expr(first), ""))
FirstNotEmpty(c) ==
    JObj(<< <<K("Fn::Not"), JArr(<<
        JObj(<< <<K("Fn::Equals"),
                  JArr(<<LegExpression(c.first), JStr(<<>>)>>)>> >>) >>)>> >>)

Coalesced(d) == SelectSeq2(d.environment, LAMBDA v : v.class = "CoalescedVariable")

\* C9: Conditions is exactly ShouldNotCreateEnvResources (env equals "NONE"),
\* which no generated condition overwrites, plus one entry per distinct
\* CoalescedVariable name; when two CoalescedVariables share a name, the
\* condition of the later one is kept.
C9_Conditions ==
    Compiled =>
      LET conditions == ConditionsOf(cfTemplate)
          coalesced == Coalesced(metadata)
      IN  /\ KeySet(conditions) =
               {K("ShouldNotCreateEnvResources")}
               \cup {<<"FirstNotEmpty_">> \o coalesced[i].name :
                       i \in 1..Len(coalesced)}
          /\ Len(conditions.v) =
               1 + Cardinality({coalesced[i].name : i \in 1..Len(coalesced)})
          /\ JEq(Get(conditions, K("ShouldNotCreateEnvResources")),
                 JObj(<< <<K("Fn::Equals"),
                           JArr(<<JObj(<< <<K("Ref"), JStr(<<"e", "n", "v">>)>> >>),
                                  L("NONE")>>)>> >>))
          /\ \A i \in 1..Len(coalesced) :
               (\A j \in (i + 1)..Len(coalesced) :
                    coalesced[j].name # coalesced[i].name)
               => JEq(Get(conditions, <<"FirstNotEmpty_">> \o coalesced[i].name),
                      FirstNotEmpty(coalesced[i]))

\* C9 witness: a compiled definition with two CoalescedVariables of one name
\* and different first legs, whose Conditions hold the fixed condition and one
\* generated one
C9_Witness ==
    /\ Compiled
    /\ Len(Coalesced(metadata)) = 2
    /\ Coalesced(metadata)[1].name = Coalesced(metadata)[2].name
    /\ Coalesced(metadata)[1].first # Coalesced(metadata)[2].first
    /\ Len(ConditionsOf(cfTemplate).v) = 2

\* C10: for a CoalescedVariable named X, toConditions gives exactly one
\* condition, "FirstNotEmpty_X", with block Not(Equals(expr(first), "")), and
\* toVariable gives the variable X with value
\* Fn::If ["FirstNotEmpty_X", expr(first), expr(second)].
C10_Coalesced ==
    Compiled =>
      \A i \in 1..Len(Coalesced(metadata)) :
        LET c == Coalesced(metadata)[i]
            conditions == EnvironmentVariableConditionProvider_toConditions(c)
            variable == EnvironmentVariableVariableProvider_toVariable(c)
        IN  /\ Len(conditions) = 1
            /\ conditions[1].name = <<"FirstNotEmpty_">> \o c.name
            /\ JEq(conditions[1].block, FirstNotEmpty(c))
            /\ variable.name = c.name
            /\ JEq(variable.block,
                   JObj(<< <<K("Fn::If"), JArr(<<
                       JStr(<<"FirstNotEmpty_">> \o c.name),
                       LegExpression(c.first),
                       LegExpression(c.second) >>)>> >>))

\* C10 witness: a compiled definition with a CoalescedVariable whose first
\* leg is a reference and whose second is a Parameter
C10_Witness ==
    /\ Compiled
    /\ \E i \in 1..Len(Coalesced(metadata)) :
         /\ Coalesced(metadata)[i].first.class = "ResourceOutputReference"
         /\ Coalesced(metadata)[i].second.class = "Parameter"
         /\ HasKey(ConditionsOf(cfTemplate),
                   <<"FirstNotEmpty_">> \o Coalesced(metadata)[i].name)

\* the policy action a table action stands for
DynamoAction(action) ==
    IF action = <<"ReadItem">> THEN L("dynamodb:GetItem")
    ELSE L("dynamodb:UpdateItem")

\* "arn:aws:dynamodb:${region}:${account}:table/${tableName}" with tableName
\* the import "${api<apiName>GraphQLAPIIdOutput}:GetAtt:<tableName>Table:Name"
TableArn(table) ==
    JObj(<< <<K("Fn::Sub"), JArr(<<
       JStr(<<"arn:aws:dynamodb:", "$", "{", "region", "}", ":",
              "$", "{", "account", "}", ":table/", "$", "{", "tableName", "}">>),
       JObj(<<
         <<K("region"), JObj(<< <<K("Ref"), L("AWS::Region")>> >>)>>,
         <<K("account"), JObj(<< <<K("Ref"), L("AWS::AccountId")>> >>)>>,
         <<K("tableName"),
           JObj(<< <<K("Fn::ImportValue"),
             JObj(<< <<K("Fn::Sub"),
               JStr(<<"$", "{">> \o TableParameterName(table)
                    \o <<"}", ":GetAtt:">> \o table.tableName
                    \o <<"Table:", "Name">>)>> >>)>> >>)>> >>) >>)>> >>)

\* C11: for every TablePermission of the definition, the Action list of its
\* policy statement has the length of the permission's actions and holds, at
\* every position, the policy action of the action at that position (ReadItem
\* as dynamodb:GetItem, UpdateItem as dynamodb:UpdateItem), and its Resource
\* is the list of the one ARN built from the import of the table's name under
\* the table's API-id parameter.
C11_TableStatement ==
    Compiled =>
      \A i \in 1..Len(metadata.permissions) :
        metadata.permissions[i].type = "TablePermission" =>
          LET p == metadata.permissions[i]
              statement == StatementsOf(cfTemplate).v[i + 1]
              action == Get(statement, K("Action"))
              resource == Get(statement, K("Resource"))
          IN  /\ action.t = "arr"
              /\ Len(action.v) = Len(p.actions)
              /\ \A a \in 1..Len(p.actions) :
                    action.v[a] = DynamoAction(p.actions[a])
              /\ resource.t = "arr"
              /\ Len(resource.v) = 1
              /\ JEq(resource.v[1], TableArn(p.table))

\* C11 witness: a compiled definition with a TablePermission whose actions are
\* UpdateItem, then ReadItem, and whose statement lists dynamodb:UpdateItem,
\* then dynamodb:GetItem
C11_Witness ==
    /\ Compiled
    /\ \E i \in 1..Len(metadata.permissions) :
         /\ metadata.permissions[i].type = "TablePermission"
         /\ metadata.permissions[i].actions = <<<<"UpdateItem">>, <<"ReadItem">>>>
         /\ Get(StatementsOf(cfTemplate).v[i + 1], K("Action")) =
              JArr(<<L("dynamodb:UpdateItem"), L("dynamodb:GetItem")>>)

LowerCase ==
    <<"a", "b", "c", "d", "e", "f", "g", "h", "i", "j", "k", "l", "m",
      "n", "o", "p", "q", "r", "s", "t", "u", "v", "w", "x", "y", "z">>
UpperCase ==
    <<"A", "B", "C", "D", "E", "F", "G", "H", "I", "J", "K", "L", "M",
      "N", "O", "P", "Q", "R", "S", "T", "U", "V", "W", "X", "Y", "Z">>

\* the capital of a letter; any other symbol is itself
Capital(c) ==
    IF \E i \in 1..26 : LowerCase[i] = c
    THEN UpperCase[CHOOSE i \in 1..26 : LowerCase[i] = c]
    ELSE c

\* UPPERCASE(tableName + "_table_name")
TableVariableName(tableName) ==
    [i \in 1..Len(tableName) |-> Capital(tableName[i])] \o <<"_TABLE_NAME">>

TableNameVariables(d) ==
    SelectSeq2(d.environment, LAMBDA v : v.class = "TableNameVariable")

\* C12: for every TableNameVariable of the definition, over a table
\* {apiName, tableName}, toVariable gives the name
\* UPPERCASE(tableName + "_table_name"), the same for two tables of one
\* tableName whatever their apiName, and the value Fn::ImportValue of Fn::Sub
\* "${api<apiName>GraphQLAPIIdOutput}:GetAtt:<tableName>Table:Name"; for
\* {apiName: "myApi", tableName: "Todo"} the name is "TODO_TABLE_NAME".
C12_TableNameVariable ==
    Compiled =>
      \A i \in 1..Len(TableNameVariables(metadata)) :
        LET v == TableNameVariables(metadata)[i]
            variable == EnvironmentVariableVariableProvider_toVariable(v)
        IN  /\ variable.name = TableVariableName(v.table.tableName)
            /\ \A j \in 1..Len(TableNameVariables(metadata)) :
                  TableNameVariables(metadata)[j].table.tableName = v.table.tableName
                  => EnvironmentVariableVariableProvider_toVariable(
                         TableNameVariables(metadata)[j]).name = variable.name
            /\ JEq(variable.block,
                   JObj(<< <<K("Fn::ImportValue"),
                     JObj(<< <<K("Fn::Sub"),
                       JStr(<<"$", "{", "a", "p", "i">> \o v.table.apiName
                            \o <<"GraphQLAPIIdOutput", "}", ":GetAtt:">>
                            \o v.table.tableName \o <<"Table:", "Name">>)>> >>)>> >>))
            /\ (v.table.apiName = <<"m", "y", "A", "p", "i">>
                  /\ v.table.tableName = <<"T", "o", "d", "o">>)
               => variable.name = <<"T", "O", "D", "O", "_TABLE_NAME">>

\* C12 witness: a compiled definition with the TableNameVariable of
\* {apiName: "myApi", tableName: "Todo"}, whose Environment.Variables hold
\* TODO_TABLE_NAME
C12_Witness ==
    /\ Compiled
    /\ \E i \in 1..Len(metadata.environment) :
         /\ metadata.environment[i].class = "TableNameVariable"
         /\ metadata.environment[i].table.apiName = <<"m", "y", "A", "p", "i">>
         /\ metadata.environment[i].table.tableName = <<"T", "o", "d", "o">>
    /\ HasKey(VariablesOf(cfTemplate), <<"T", "O", "D", "O", "_TABLE_NAME">>)

\* the names of the fragments merged into Parameters, in merge order: env,
\* resourceName, then the collected parameters
FragmentNames(fname, d) ==
    LET fragments == FixedOrigins(fname) \o Origins(d)
    IN  [i \in 1..Len(fragments) |-> fragments[i].name]

\* the position of the first occurrence of n in names
FirstAt(names, n) ==
    CHOOSE i \in 1..Len(names) :
       /\ names[i] = n
       /\ \A j \in 1..(i - 1) : names[j] # n

\* the distinct names, each at its first occurrence
FirstOccurrences(names) ==
    SelectSeq2([i \in 1..Len(names) |-> [at |-> i, name |-> names[i]]],
               LAMBDA e : FirstAt(names, e.name) = e.at)

\* C13 (as claimed): the keys of Parameters, in the compiled document and in
\* the written one, are the distinct names of the merged fragments, each at
\* the position of its first occurrence in the fragment sequence.
C13_FirstOccurrenceOrder ==
    LET first == FirstOccurrences(FragmentNames(handlerDir, metadata))
        keys == [i \in 1..Len(first) |-> first[i].name]
    IN  /\ Compiled => ObjectKeys(ParametersOf(cfTemplate)) = keys
        /\ pc = "written" => ObjectKeys(ParametersOf(templateFile)) = keys

\* C13 (amended): the written Parameters section is determined by the
\* definition and the function name, so that two compiles of one definition
\* give the same section, key order included: its keys are the distinct names
\* of the merged fragments, each once; the names that are array indices come
\* first, in ascending numeric order, and the other names follow in the order
\* of their first occurrences in the fragment sequence; every entry is
\* { Type: "String" } with the Default of the last fragment of its name that
\* gave one, if any.
C13_EnumerationOrder ==
    LET names == FragmentNames(handlerDir, metadata)
        fragments == FixedOrigins(handlerDir) \o Origins(metadata)
        Ordered(keys) ==
          /\ {keys[i] : i \in 1..Len(keys)} = {names[i] : i \in 1..Len(names)}
          /\ \A i \in 1..Len(keys) : \A j \in (i + 1)..Len(keys) :
                /\ keys[i] # keys[j]
                /\ isArrayIndex(keys[j]) =>
                      isArrayIndex(keys[i]) /\ IndexLess(keys[i], keys[j])
                /\ ~isArrayIndex(keys[i]) =>
                      FirstAt(names, keys[i]) < FirstAt(names, keys[j])
    IN  /\ Compiled => Ordered(ObjectKeys(ParametersOf(cfTemplate)))
        /\ pc = "written" =>
              /\ ObjectKeys(ParametersOf(templateFile)) =
                   ObjectKeys(ParametersOf(cfTemplate))
              /\ \A n \in KeySet(ParametersOf(templateFile)) :
                    Get(ParametersOf(templateFile), n) =
                      Stringify(JObj(<< <<K("Type"), L("String")>>,
                                        <<K("Default"), LastDefault(fragments, n)>> >>))

\* C13 witness: a written document whose definition requires the parameters
\* "2" and then "1", and repeats a name, and whose Parameters list "1", "2",
\* env, resourceName in that order
C13_Witness ==
    /\ pc = "written"
    /\ \E i \in 1..Len(Origins(metadata)) : \E j \in (i + 1)..Len(Origins(metadata)) :
         /\ Origins(metadata)[i].name = <<"2">>
         /\ Origins(metadata)[j].name = <<"1">>
    /\ \E i \in 1..Len(Origins(metadata)) : \E j \in (i + 1)..Len(Origins(metadata)) :
         Origins(metadata)[i].name = Origins(metadata)[j].name
    /\ SubSeq(ObjectKeys(ParametersOf(templateFile)), 1, 4) =
         <<<<"1">>, <<"2">>, EnvName, ResourceNameName>>

\* C14: the Statement list of the execution policy has 1 + (number of
\* permissions) entries: first the log statement (logs:CreateLogGroup,
\* logs:CreateLogStream, logs:PutLogEvents on the function's log group), then
\* at position i + 1 toPolicyStatement of the i-th permission; no permission
\* is dropped, merged or deduplicated.
C14_OneStatementPerPermission ==
    Compiled =>
      LET statements == StatementsOf(cfTemplate)
      IN  /\ statements.t = "arr"
          /\ Len(statements.v) = 1 + Len(metadata.permissions)
          /\ JEq(Get(statements.v[1], K("Effect")), L("Allow"))
          /\ JEq(Get(statements.v[1], K("Action")),
                 JArr(<<L("logs:CreateLogGroup"), L("logs:CreateLogStream"),
                        L("logs:PutLogEvents")>>))
          /\ JEq(At(statements.v[1], <<K("Resource"), K("Fn::Sub"), 2, K("lambda")>>),
                 JObj(<< <<K("Ref"), L("LambdaFunction")>> >>))
          /\ \A i \in 1..Len(metadata.permissions) :
                JEq(statements.v[i + 1],
                    PermissionPolicyProvider_toPolicyStatement(
                        metadata.permissions[i]))

\* C14 witness: a compiled definition with the same permission twice, whose
\* policy has the log statement and two equal statements after it
C14_Witness ==
    /\ Compiled
    /\ Len(metadata.permissions) = 2
    /\ metadata.permissions[1] = metadata.permissions[2]
    /\ Len(StatementsOf(cfTemplate).v) = 3
    /\ StatementsOf(cfTemplate).v[2] = StatementsOf(cfTemplate).v[3]
    /\ StatementsOf(cfTemplate).v[1] # StatementsOf(cfTemplate).v[2]

\* how many elements of the list are x
CountOf(list, x) == Cardinality({i \in 1..Len(list) : list[i] = x})

\* category + resource + output of every reference of the list
DerivedNames(references) ==
    [i \in 1..Len(references) |->
       references[i].category \o references[i].resource \o references[i].output]

\* the names of the plain Parameters a permission or an environment variable
\* carries
PlainParameterNames(x) ==
    LET legs == IF "type" \in DOMAIN x
                THEN IF x.type = "SendMailPermission" THEN <<x.identity>> ELSE <<>>
                ELSE IF x.class = "ParameterVariable" THEN <<x.parameter>>
                ELSE IF x.class = "CoalescedVariable" THEN <<x.first, x.second>>
                ELSE <<>>
        plain == SelectSeq2(legs, LAMBDA leg : leg.class = "Parameter")
    IN  [i \in 1..Len(plain) |-> plain[i].name]

\* the parameter names are the derived names and the plain names, each as
\* often as there
SameNames(parameters, references, x) ==
    LET names == [i \in 1..Len(parameters) |-> parameters[i].name]
        expected == DerivedNames(references) \o PlainParameterNames(x)
    IN  /\ Len(names) = Len(expected)
        /\ \A i \in 1..Len(names) :
              CountOf(names, names[i]) = CountOf(expected, names[i])

\* C15: for every permission and every environment variable of the
\* definition, the names of the parameters toParameters returns are the
\* category + resource + output names of the references toOutputReferences
\* returns for it together with the names of the plain Parameters it carries,
\* each as often; the string resources of an IAMActionPermission give neither
\* a parameter nor a reference.
C15_ParametersMatchReferences ==
    Compiled =>
      /\ \A i \in 1..Len(metadata.permissions) :
           LET p == metadata.permissions[i]
               references ==
                 PermissionResourceOutputReferenceProvider_toOutputReferences(p)
           IN  /\ SameNames(PermissionParametersProvider_toParameters(p),
                            references, p)
               /\ p.type = "IAMActionPermission" =>
                     Len(references) =
                       Cardinality({r \in 1..Len(p.resources) :
                                      p.resources[r].t # "str"})
      /\ \A i \in 1..Len(metadata.environment) :
           LET v == metadata.environment[i]
           IN  SameNames(EnvironmentVariableParametersProvider_toParameters(v),
                         EnvironmentVariableResourceOutputReferenceProvider_toOutputReferences(v),
                         v)

\* C15 witness: a compiled definition with an IAMActionPermission that has a
\* string resource and a reference, and a CoalescedVariable with a Parameter
\* leg and a reference leg
C15_Witness ==
    /\ Compiled
    /\ \E i \in 1..Len(metadata.permissions) :
         LET p == metadata.permissions[i]
         IN  /\ p.type = "IAMActionPermission"
             /\ \E r \in 1..Len(p.resources) : p.resources[r].t = "str"
             /\ Len(PermissionParametersProvider_toParameters(p)) = 1
             /\ Len(PermissionResourceOutputReferenceProvider_toOutputReferences(p)) = 1
    /\ \E i \in 1..Len(metadata.environment) :
         LET v == metadata.environment[i]
         IN  /\ v.class = "CoalescedVariable"
             /\ v.first.class = "Parameter"
             /\ v.second.class = "ResourceOutputReference"
             /\ Len(EnvironmentVariableParametersProvider_toParameters(v)) = 2
             /\ Len(EnvironmentVariableResourceOutputReferenceProvider_toOutputReferences(v)) = 1

\* the dependsOn list of the function's entry in the written backend config
DependsOnWritten == At(backendConfigFile, <<handlerDir, K("dependsOn")>>)

\* the (category, resource) pair of a reference
PairOf(ref) == <<ref.category, ref.resource>>

\* the outputs of the references of one pair, in the order discovered
OutputsOf(references, pair) ==
    LET same == SelectSeq2(references, LAMBDA r : PairOf(r) = pair)
    IN  [i \in 1..Len(same) |-> same[i].output]

\* C16: the dependsOn list written for the function has one entry for every
\* distinct (category, resource) pair among the references discovered from
\* the environment variables, the permissions and the event source, and no
\* other; the attributes of an entry are the distinct outputs referenced for
\* its pair, each once and in the order of their first occurrences; so every
\* discovered reference has its output among the attributes of the entry of
\* its category and resource.  Names are alphanumeric.
C16_DependsOn ==
    pc = "registered" =>
      LET references == DiscoveredReferences(metadata)
          pairs == {PairOf(references[i]) : i \in 1..Len(references)}
          dependsOn == DependsOnWritten
          EntryPair(e) == <<Get(e, K("category")).v, Get(e, K("resourceName")).v>>
      IN  /\ dependsOn.t = "arr"
          /\ Len(dependsOn.v) = Cardinality(pairs)
          /\ {EntryPair(dependsOn.v[i]) : i \in 1..Len(dependsOn.v)} = pairs
          /\ \A i \in 1..Len(dependsOn.v) :
                LET outputs == OutputsOf(references, EntryPair(dependsOn.v[i]))
                    first == FirstOccurrences(outputs)
                IN  Get(dependsOn.v[i], K("attributes")) =
                      JArr([a \in 1..Len(first) |-> JStr(first[a].name)])
          /\ \A r \in 1..Len(references) :
                \E i \in 1..Len(dependsOn.v) :
                   /\ EntryPair(dependsOn.v[i]) = PairOf(references[r])
                   /\ \E a \in 1..Len(Get(dependsOn.v[i], K("attributes")).v) :
                        Get(dependsOn.v[i], K("attributes")).v[a] =
                          JStr(references[r].output)

\* C16 witness: a registered function whose definition refers to one output
\* twice and to two outputs of one resource, and whose dependsOn has an entry
\* with two attributes
C16_Witness ==
    /\ pc = "registered"
    /\ \E i \in 1..Len(DiscoveredReferences(metadata)) :
         \E j \in (i + 1)..Len(DiscoveredReferences(metadata)) :
            DiscoveredReferences(metadata)[i] = DiscoveredReferences(metadata)[j]
    /\ \E i \in 1..Len(DependsOnWritten.v) :
         Len(Get(DependsOnWritten.v[i], K("attributes")).v) = 2

====
